---- MODULE Spec2Model ----
(***************************************************************************)
(* The civicchain program (solana-contract/programs/civicchain/src/lib.rs) *)
(* as a state machine over its two account stores.                         *)
(*                                                                         *)
(* users and issues are the program-derived accounts that exist, keyed by  *)
(* the seed of their address (wallet address, issue hash); now is the      *)
(* clock sysvar.  Every instruction is one action: the account validation  *)
(* of its #[derive(Accounts)] context, then the handler run on copies of   *)
(* the accounts, then the write-back of the copies when the handler        *)
(* returned Ok.  What an instruction would do in a ledger S is a function  *)
(* of S and the arguments (the operators named after the contexts), so an  *)
(* instruction's result, which the program returns to the client and does  *)
(* not store, can be stated in every reachable ledger.                     *)
(***************************************************************************)
EXTENDS Integers, FiniteSets, Sequences, TLC

VARIABLES users, issues, now, nops, cast

vars == <<users, issues, now, nops, cast>>

----------------------------------------------------------------------------
(* Bounds of the model *)

\* Number of steps, committed transactions and clock ticks, in one behaviour.
MaxOps == 4

----------------------------------------------------------------------------
(* Types of the program *)

\* A u32 is held as two 16-bit limbs, value = hi * 2^16 + lo, so that the
\* whole range 0 .. 2^32 - 1 and the overflow at its end are in the model.
Limb == 256 * 256
U32(n) == [hi |-> n \div Limb, lo |-> n % Limb]
U32Max == [hi |-> Limb - 1, lo |-> Limb - 1]
\* x >= n for a u32 x and a literal n < 2^16
U32Ge(x, n) == x.hi > 0 \/ x.lo >= n
\* y = x + 1 as numbers
U32Succ(x, y) == \/ x.lo < Limb - 1 /\ y = [hi |-> x.hi, lo |-> x.lo + 1]
                 \/ x.lo = Limb - 1 /\ y = [hi |-> x.hi + 1, lo |-> 0]

\* Verifications at which record_verification closes the issue.
CloseThreshold == 3

UserRole == {"Citizen", "Government"}
IssueStatus == {"Open", "InProgress", "Resolved", "Closed"}
IssueCategory == {"Pothole", "Garbage", "Streetlight", "Water", "Other"}
VoteType == {"Upvote", "Downvote"}

\* error_code enum of the program, and the failures of account validation:
\* init of an address already in use, an account that was never created, and
\* an account that is not at the address of its seeds and bump.
ErrorCode == {"Overflow", "InvalidStatus", "Unauthorized"}
AccountError == {"AlreadyExists", "NotFound", "ConstraintSeeds"}

----------------------------------------------------------------------------
(* Inputs the model draws from *)

Wallets == {"w1", "w2"}
Hashes == {"h1", "h2"}
Reputations == {U32(0), U32(7)}
Categories == {"Pothole", "Water"}
Priorities == {5, 255}

\* The canonical bump of a seed, as find_program_address yields it: a fixed
\* function of the seed.
UserBump(w) == CASE w = "w1" -> 255 [] w = "w2" -> 254 [] OTHER -> 253
IssueBump(h) == CASE h = "h1" -> 255 [] OTHER -> 252

\* The None of an Option<u32>: no u32.
NoneU32 == [hi |-> -1, lo |-> -1]

\* wrapping_add in place of checked_add: the sum modulo 2^32, never None.
wrapping_add(x, y) ==
    LET lo == x.lo + y
    IN [hi |-> (x.hi + (lo \div Limb)) % Limb, lo |-> lo % Limb]

\* u32::checked_add(y) for a literal y < 2^16: None when the sum does not fit
\* in a u32.
checked_add(x, y) ==
    LET lo == x.lo + y
        hi == x.hi + (lo \div Limb)
    IN IF hi > Limb - 1 THEN NoneU32 ELSE [hi |-> hi, lo |-> lo % Limb]

----------------------------------------------------------------------------
(* Handlers: each takes the account copies of its context and the value of *)
(* Clock::get()?.unix_timestamp (the clock sysvar, one value throughout a  *)
(* transaction), and returns the Result and the copies as the handler left *)
(* them.  A `?` returns at once, with the assignments made before it       *)
(* already applied to the copies.                                          *)

initialize_user(user_pubkey, initial_rep, role, bump, unix_timestamp) ==
    [err |-> "Ok",
     user |-> [wallet_address |-> user_pubkey,
               reputation |-> initial_rep,
               role |-> role,
               total_issues |-> U32(0),
               total_verifications |-> U32(0),
               created_at |-> unix_timestamp,
               bump |-> bump]]

\* create_issue that leaves updated_at at the zero of a fresh account.
create_issue_unstamped(user_account, authority, issue_hash, category, priority, bump, unix_timestamp) ==
    LET issue_account == [issue_hash |-> issue_hash,
                          reporter |-> authority,
                          status |-> "Open",
                          category |-> category,
                          priority |-> priority,
                          upvotes |-> U32(0),
                          downvotes |-> U32(0),
                          verifications |-> U32(0),
                          created_at |-> unix_timestamp,
                          updated_at |-> 0,
                          bump |-> bump]
        sum == checked_add(user_account.total_issues, 1)
    IN IF sum = NoneU32
       THEN [err |-> "Overflow", issue |-> issue_account, user |-> user_account]
       ELSE [err |-> "Ok", issue |-> issue_account,
             user |-> [user_account EXCEPT !.total_issues = sum]]

create_issue(user_account, authority, issue_hash, category, priority, bump, unix_timestamp) ==
    LET issue_account == [issue_hash |-> issue_hash,
                          reporter |-> authority,
                          status |-> "Open",
                          category |-> category,
                          priority |-> priority,
                          upvotes |-> U32(0),
                          downvotes |-> U32(0),
                          verifications |-> U32(0),
                          created_at |-> unix_timestamp,
                          updated_at |-> unix_timestamp,
                          bump |-> bump]
        sum == checked_add(user_account.total_issues, 1)
    IN IF sum = NoneU32
       THEN [err |-> "Overflow", issue |-> issue_account, user |-> user_account]
       ELSE [err |-> "Ok", issue |-> issue_account,
             user |-> [user_account EXCEPT !.total_issues = sum]]

\* record_vote with the two arms of the match exchanged.
record_vote_swapped(issue_account, vote_type, unix_timestamp) ==
    LET field == IF vote_type = "Upvote" THEN "downvotes" ELSE "upvotes"
        sum == checked_add(issue_account[field], 1)
    IN IF sum = NoneU32
       THEN [err |-> "Overflow", issue |-> issue_account]
       ELSE [err |-> "Ok",
             issue |-> [issue_account EXCEPT ![field] = sum,
                                             !.updated_at = unix_timestamp]]

\* record_vote that leaves updated_at alone.
record_vote_unstamped(issue_account, vote_type, unix_timestamp) ==
    LET field == IF vote_type = "Upvote" THEN "upvotes" ELSE "downvotes"
        sum == checked_add(issue_account[field], 1)
    IN IF sum = NoneU32
       THEN [err |-> "Overflow", issue |-> issue_account]
       ELSE [err |-> "Ok", issue |-> [issue_account EXCEPT ![field] = sum]]

record_vote(issue_account, vote_type, unix_timestamp) ==
    LET field == IF vote_type = "Upvote" THEN "upvotes" ELSE "downvotes"
        sum == checked_add(issue_account[field], 1)
    IN IF sum = NoneU32
       THEN [err |-> "Overflow", issue |-> issue_account]
       ELSE [err |-> "Ok",
             issue |-> [issue_account EXCEPT ![field] = sum,
                                             !.updated_at = unix_timestamp]]

\* record_verification without the require! on the status.
record_verification_unchecked(issue_account, verifier_account, unix_timestamp) ==
    LET sum == checked_add(issue_account.verifications, 1)
    IN IF sum = NoneU32
       THEN [err |-> "Overflow", issue |-> issue_account, user |-> verifier_account]
       ELSE
       LET counted == [issue_account EXCEPT !.verifications = sum]
           closed == IF U32Ge(counted.verifications, CloseThreshold)
                     THEN [counted EXCEPT !.status = "Closed"]
                     ELSE counted
           stamped == [closed EXCEPT !.updated_at = unix_timestamp]
           total == checked_add(verifier_account.total_verifications, 1)
       IN IF total = NoneU32
          THEN [err |-> "Overflow", issue |-> stamped, user |-> verifier_account]
          ELSE [err |-> "Ok", issue |-> stamped,
                user |-> [verifier_account EXCEPT !.total_verifications = total]]

\* record_verification that closes when verifications > 3 (closeAt = 4), or
\* only when verifications is exactly 3 (exactly = TRUE).
record_verification_closing(issue_account, verifier_account, unix_timestamp, closeAt, exactly) ==
    IF issue_account.status # "Resolved"
    THEN [err |-> "InvalidStatus", issue |-> issue_account, user |-> verifier_account]
    ELSE
    LET sum == checked_add(issue_account.verifications, 1)
    IN IF sum = NoneU32
       THEN [err |-> "Overflow", issue |-> issue_account, user |-> verifier_account]
       ELSE
       LET counted == [issue_account EXCEPT !.verifications = sum]
           closed == IF IF exactly THEN counted.verifications = U32(closeAt)
                                   ELSE U32Ge(counted.verifications, closeAt)
                     THEN [counted EXCEPT !.status = "Closed"]
                     ELSE counted
           stamped == [closed EXCEPT !.updated_at = unix_timestamp]
           total == checked_add(verifier_account.total_verifications, 1)
       IN IF total = NoneU32
          THEN [err |-> "Overflow", issue |-> stamped, user |-> verifier_account]
          ELSE [err |-> "Ok", issue |-> stamped,
                user |-> [verifier_account EXCEPT !.total_verifications = total]]

record_verification_late(issue_account, verifier_account, unix_timestamp) ==
    record_verification_closing(issue_account, verifier_account, unix_timestamp,
                                CloseThreshold + 1, FALSE)

record_verification_exact(issue_account, verifier_account, unix_timestamp) ==
    record_verification_closing(issue_account, verifier_account, unix_timestamp,
                                CloseThreshold, TRUE)

record_verification(issue_account, verifier_account, unix_timestamp) ==
    IF issue_account.status # "Resolved"
    THEN [err |-> "InvalidStatus", issue |-> issue_account, user |-> verifier_account]
    ELSE
    LET sum == checked_add(issue_account.verifications, 1)
    IN IF sum = NoneU32
       THEN [err |-> "Overflow", issue |-> issue_account, user |-> verifier_account]
       ELSE
       LET counted == [issue_account EXCEPT !.verifications = sum]
           closed == IF U32Ge(counted.verifications, CloseThreshold)
                     THEN [counted EXCEPT !.status = "Closed"]
                     ELSE counted
           stamped == [closed EXCEPT !.updated_at = unix_timestamp]
           total == checked_add(verifier_account.total_verifications, 1)
       IN IF total = NoneU32
          THEN [err |-> "Overflow", issue |-> stamped, user |-> verifier_account]
          ELSE [err |-> "Ok", issue |-> stamped,
                user |-> [verifier_account EXCEPT !.total_verifications = total]]

\* update_issue_status that refuses to move a status backward in the order
\* Open, InProgress, Resolved, Closed.
update_issue_status_forward(issue_account, government_account, new_status, unix_timestamp) ==
    LET rank(st) == CASE st = "Open" -> 0 [] st = "InProgress" -> 1
                      [] st = "Resolved" -> 2 [] OTHER -> 3
    IN IF government_account.role # "Government"
       THEN [err |-> "Unauthorized", issue |-> issue_account]
       ELSE IF rank(new_status) < rank(issue_account.status)
       THEN [err |-> "InvalidStatus", issue |-> issue_account]
       ELSE [err |-> "Ok",
             issue |-> [issue_account EXCEPT !.status = new_status,
                                             !.updated_at = unix_timestamp]]

\* update_issue_status that starts the verifications again from zero when
\* the issue is set back to Open.
update_issue_status_restarts(issue_account, government_account, new_status, unix_timestamp) ==
    IF government_account.role # "Government"
    THEN [err |-> "Unauthorized", issue |-> issue_account]
    ELSE [err |-> "Ok",
          issue |-> [issue_account EXCEPT
                        !.status = new_status,
                        !.verifications = IF new_status = "Open" THEN U32(0) ELSE @,
                        !.updated_at = unix_timestamp]]

\* update_issue_status that brings the verifications of an issue it closes
\* up to the closing threshold.
update_issue_status_closing(issue_account, government_account, new_status, unix_timestamp) ==
    IF government_account.role # "Government"
    THEN [err |-> "Unauthorized", issue |-> issue_account]
    ELSE [err |-> "Ok",
          issue |-> [issue_account EXCEPT
                        !.status = new_status,
                        !.verifications =
                            IF new_status = "Closed" /\ ~U32Ge(@, CloseThreshold)
                            THEN U32(CloseThreshold) ELSE @,
                        !.updated_at = unix_timestamp]]

\* update_issue_status without the require! on the caller's role.
update_issue_status_unguarded(issue_account, government_account, new_status, unix_timestamp) ==
    [err |-> "Ok",
     issue |-> [issue_account EXCEPT !.status = new_status,
                                     !.updated_at = unix_timestamp]]

update_issue_status(issue_account, government_account, new_status, unix_timestamp) ==
    IF government_account.role # "Government"
    THEN [err |-> "Unauthorized", issue |-> issue_account]
    ELSE [err |-> "Ok",
          issue |-> [issue_account EXCEPT !.status = new_status,
                                          !.updated_at = unix_timestamp]]

\* update_reputation writing a fresh record for the wallet: the counters
\* restart from zero.
update_reputation_reinit(user_account, new_rep) ==
    [err |-> "Ok",
     user |-> [user_account EXCEPT !.reputation = new_rep,
                                   !.total_issues = U32(0),
                                   !.total_verifications = U32(0)]]

\* update_reputation that also writes the role: the user becomes a Citizen.
update_reputation_demotes(user_account, new_rep) ==
    [err |-> "Ok",
     user |-> [user_account EXCEPT !.reputation = new_rep, !.role = "Citizen"]]

update_reputation(user_account, new_rep) ==
    [err |-> "Ok", user |-> [user_account EXCEPT !.reputation = new_rep]]

---------------------------------------------------------------------------------------------------------------------------------------------------
(* Account validation and write-back.  S is a ledger: [users, issues, now]. *)

EmptyLedger == [users |-> << >>, issues |-> << >>, now |-> 0]

\* Account<'info, UserAccount> with seeds = [b"user", w], bump = account.bump
UserAccountCheck(S, w) ==
    IF w \notin DOMAIN S.users THEN "NotFound"
    ELSE IF S.users[w].bump # UserBump(w) THEN "ConstraintSeeds"
    ELSE "Ok"

\* Account<'info, IssueAccount> with seeds = [b"issue", h], bump = account.bump
IssueAccountCheck(S, h) ==
    IF h \notin DOMAIN S.issues THEN "NotFound"
    ELSE IF S.issues[h].bump # IssueBump(h) THEN "ConstraintSeeds"
    ELSE "Ok"

\* init_if_needed in place of init: an address already in use is accepted.
InitCheck_if_needed(store, key) == "Ok"

\* #[account(init, ...)]: creating an account at an address already in use fails.
InitCheck(store, key) == IF key \in DOMAIN store THEN "AlreadyExists" ELSE "Ok"

\* The first failure of a sequence of two checks, or Ok.
FirstError(a, b) == IF a # "Ok" THEN a ELSE b

Put(store, key, account) == [k \in DOMAIN store \cup {key} |->
                               IF k = key THEN account ELSE store[k]]

\* The result of an instruction and the ledger after it: an instruction that
\* returned Ok has its mutable accounts written back, one that returned an
\* error is rolled back as a whole.
Failed(S, err) == [err |-> err, users |-> S.users, issues |-> S.issues]

\* A write-back that does not look at the handler's Result.
Finish_writes_always(S, err, users_written, issues_written) ==
    [err |-> err, users |-> users_written, issues |-> issues_written]

Finish(S, err, users_written, issues_written) ==
    IF err = "Ok"
    THEN [err |-> "Ok", users |-> users_written, issues |-> issues_written]
    ELSE Failed(S, err)

----------------------------------------------------------------------------
(* Instructions: the outcome in ledger S *)

\* InitializeUser: user_account is init at seeds [b"user", user_pubkey]; the
\* payer is any signer.
InitializeUser(S, payer, user_pubkey, initial_rep, role) ==
    LET pre == InitCheck(S.users, user_pubkey)
    IN IF pre # "Ok" THEN Failed(S, pre)
       ELSE LET r == initialize_user(user_pubkey, initial_rep, role,
                                     UserBump(user_pubkey), S.now)
            IN Finish(S, r.err, Put(S.users, user_pubkey, r.user), S.issues)

\* CreateIssue whose issue_account is taken as it is when it already exists.
CreateIssue_overwrites(S, authority, issue_hash, category, priority) ==
    LET pre == UserAccountCheck(S, authority)
    IN IF pre # "Ok" THEN Failed(S, pre)
       ELSE LET r == create_issue(S.users[authority], authority, issue_hash,
                                  category, priority, IssueBump(issue_hash), S.now)
            IN Finish(S, r.err, Put(S.users, authority, r.user),
                      Put(S.issues, issue_hash, r.issue))

\* CreateIssue whose user_account is not mut: the handler's increment of
\* total_issues is not written back.
CreateIssue_user_readonly(S, authority, issue_hash, category, priority) ==
    LET pre == FirstError(UserAccountCheck(S, authority),
                          InitCheck(S.issues, issue_hash))
    IN IF pre # "Ok" THEN Failed(S, pre)
       ELSE LET r == create_issue(S.users[authority], authority, issue_hash,
                                  category, priority, IssueBump(issue_hash), S.now)
            IN Finish(S, r.err, S.users, Put(S.issues, issue_hash, r.issue))

\* CreateIssue: user_account is the signer's own (seeds [b"user", authority]);
\* issue_account is init at seeds [b"issue", issue_hash].
CreateIssue(S, authority, issue_hash, category, priority) ==
    LET pre == FirstError(UserAccountCheck(S, authority),
                          InitCheck(S.issues, issue_hash))
    IN IF pre # "Ok" THEN Failed(S, pre)
       ELSE LET r == create_issue(S.users[authority], authority, issue_hash,
                                  category, priority, IssueBump(issue_hash), S.now)
            IN Finish(S, r.err, Put(S.users, authority, r.user),
                      Put(S.issues, issue_hash, r.issue))

\* RecordVote with a constraint that the voter is not the reporter of the
\* issue.
RecordVote_not_reporter(S, voter, issue_hash, reporter, vote_type) ==
    LET pre == FirstError(IssueAccountCheck(S, issue_hash),
               FirstError(UserAccountCheck(S, reporter), UserAccountCheck(S, voter)))
    IN IF pre # "Ok" THEN Failed(S, pre)
       ELSE IF S.issues[issue_hash].reporter = voter
       THEN Failed(S, "Unauthorized")
       ELSE LET r == record_vote(S.issues[issue_hash], vote_type, S.now)
            IN Finish(S, r.err, S.users, Put(S.issues, issue_hash, r.issue))

\* RecordVote: issue_account is any issue account; reporter_account is any
\* user account (its seeds are its own wallet_address); voter_account is the
\* signer's own.  Only issue_account is mut.
RecordVote(S, voter, issue_hash, reporter, vote_type) ==
    LET pre == FirstError(IssueAccountCheck(S, issue_hash),
               FirstError(UserAccountCheck(S, reporter), UserAccountCheck(S, voter)))
    IN IF pre # "Ok" THEN Failed(S, pre)
       ELSE LET r == record_vote(S.issues[issue_hash], vote_type, S.now)
            IN Finish(S, r.err, S.users, Put(S.issues, issue_hash, r.issue))

\* RecordVerification with a constraint that the verifier is not the reporter.
RecordVerification_not_reporter(S, verifier, issue_hash) ==
    LET pre == FirstError(IssueAccountCheck(S, issue_hash),
                          UserAccountCheck(S, verifier))
    IN IF pre # "Ok" THEN Failed(S, pre)
       ELSE IF S.issues[issue_hash].reporter = verifier
       THEN Failed(S, "Unauthorized")
       ELSE LET r == record_verification(S.issues[issue_hash], S.users[verifier],
                                         S.now)
            IN Finish(S, r.err, Put(S.users, verifier, r.user),
                      Put(S.issues, issue_hash, r.issue))

\* RecordVerification whose verifier_account is not mut: the handler's
\* increment of total_verifications is not written back.
RecordVerification_verifier_readonly(S, verifier, issue_hash) ==
    LET pre == FirstError(IssueAccountCheck(S, issue_hash),
                          UserAccountCheck(S, verifier))
    IN IF pre # "Ok" THEN Failed(S, pre)
       ELSE LET r == record_verification(S.issues[issue_hash], S.users[verifier],
                                         S.now)
            IN Finish(S, r.err, S.users, Put(S.issues, issue_hash, r.issue))

\* RecordVerification: issue_account is any issue account; verifier_account
\* is the signer's own.  Both are mut.
RecordVerification(S, verifier, issue_hash) ==
    LET pre == FirstError(IssueAccountCheck(S, issue_hash),
                          UserAccountCheck(S, verifier))
    IN IF pre # "Ok" THEN Failed(S, pre)
       ELSE LET r == record_verification(S.issues[issue_hash], S.users[verifier],
                                         S.now)
            IN Finish(S, r.err, Put(S.users, verifier, r.user),
                      Put(S.issues, issue_hash, r.issue))

\* UpdateIssueStatus: issue_account is any issue account (mut);
\* government_account is the signer's own.
UpdateIssueStatus(S, government, issue_hash, new_status) ==
    LET pre == FirstError(IssueAccountCheck(S, issue_hash),
                          UserAccountCheck(S, government))
    IN IF pre # "Ok" THEN Failed(S, pre)
       ELSE LET r == update_issue_status(S.issues[issue_hash], S.users[government],
                                         new_status, S.now)
            IN Finish(S, r.err, S.users, Put(S.issues, issue_hash, r.issue))

\* UpdateReputation: user_account is any user account (mut); authority is any
\* signer, and no account of the authority is part of the context.
UpdateReputation(S, authority, wallet, new_rep) ==
    LET pre == UserAccountCheck(S, wallet)
    IN IF pre # "Ok" THEN Failed(S, pre)
       ELSE LET r == update_reputation(S.users[wallet], new_rep)
            IN Finish(S, r.err, Put(S.users, wallet, r.user), S.issues)

----------------------------------------------------------------------------
(* The state machine *)

\* The ledger of the current state.
Ledger == [users |-> users, issues |-> issues, now |-> now]

\* cast is a history of the behaviour, no account of the program: cast[h][t]
\* is the number of committed recordVote transactions with vote type t on
\* the issue of hash h.
NoVotes == [h \in Hashes |-> [t \in VoteType |-> 0]]

\* One transaction with outcome o: the ledger becomes o's, and a committed
\* transaction is one of the MaxOps steps.
Transact(o) ==
    /\ users' = o.users
    /\ issues' = o.issues
    /\ nops' = IF o.err = "Ok" THEN nops + 1 ELSE nops
    /\ UNCHANGED now

initializeUser(payer, user_pubkey, initial_rep, role) ==
    /\ nops < MaxOps
    /\ Transact(InitializeUser(Ledger, payer, user_pubkey, initial_rep, role))
    /\ UNCHANGED cast

createIssue(authority, issue_hash, category, priority) ==
    /\ nops < MaxOps
    /\ Transact(CreateIssue(Ledger, authority, issue_hash, category, priority))
    /\ UNCHANGED cast

recordVote(voter, issue_hash, reporter, vote_type) ==
    /\ nops < MaxOps
    /\ Transact(RecordVote(Ledger, voter, issue_hash, reporter, vote_type))
    /\ cast' = IF RecordVote(Ledger, voter, issue_hash, reporter, vote_type).err = "Ok"
               THEN [cast EXCEPT ![issue_hash][vote_type] = @ + 1]
               ELSE cast

recordVerification(verifier, issue_hash) ==
    /\ nops < MaxOps
    /\ Transact(RecordVerification(Ledger, verifier, issue_hash))
    /\ UNCHANGED cast

updateIssueStatus(government, issue_hash, new_status) ==
    /\ nops < MaxOps
    /\ Transact(UpdateIssueStatus(Ledger, government, issue_hash, new_status))
    /\ UNCHANGED cast

updateReputation(authority, wallet, new_rep) ==
    /\ nops < MaxOps
    /\ Transact(UpdateReputation(Ledger, authority, wallet, new_rep))
    /\ UNCHANGED cast

\* The clock sysvar advances between transactions.
Tick ==
    /\ nops < MaxOps
    /\ now' = now + 1
    /\ nops' = nops + 1
    /\ UNCHANGED <<users, issues, cast>>

Init ==
    /\ users = EmptyLedger.users
    /\ issues = EmptyLedger.issues
    /\ now = EmptyLedger.now
    /\ nops = 0
    /\ cast = NoVotes

Next ==
    \/ \E p \in Wallets, w \in Wallets, rep \in Reputations, role \in UserRole :
          initializeUser(p, w, rep, role)
    \/ \E a \in Wallets, h \in Hashes, c \in Categories, p \in Priorities :
          createIssue(a, h, c, p)
    \/ \E v \in Wallets, h \in Hashes, r \in Wallets, t \in VoteType :
          recordVote(v, h, r, t)
    \/ \E v \in Wallets, h \in Hashes : recordVerification(v, h)
    \/ \E g \in Wallets, h \in Hashes, st \in IssueStatus :
          updateIssueStatus(g, h, st)
    \/ \E a \in Wallets, w \in Wallets, rep \in Reputations :
          updateReputation(a, w, rep)
    \/ Tick

Spec == Init /\ [][Next]_vars

----------------------------------------------------------------------------
(* A ledger later in its life: the state a sequence of transactions leaves *)

\* The ledger after transaction ix (a tuple: the instruction's name, then its
\* arguments in the order of the operators above) or after a clock tick.
Exec(S, ix) ==
    IF ix[1] = "tick" THEN [S EXCEPT !.now = S.now + 1]
    ELSE LET o == CASE ix[1] = "initializeUser" ->
                          InitializeUser(S, ix[2], ix[3], ix[4], ix[5])
                    [] ix[1] = "createIssue" ->
                          CreateIssue(S, ix[2], ix[3], ix[4], ix[5])
                    [] ix[1] = "recordVote" ->
                          RecordVote(S, ix[2], ix[3], ix[4], ix[5])
                    [] ix[1] = "recordVerification" ->
                          RecordVerification(S, ix[2], ix[3])
                    [] ix[1] = "updateIssueStatus" ->
                          UpdateIssueStatus(S, ix[2], ix[3], ix[4])
                    [] ix[1] = "updateReputation" ->
                          UpdateReputation(S, ix[2], ix[3], ix[4])
         IN [users |-> o.users, issues |-> o.issues, now |-> S.now]

RECURSIVE Replay(_, _)
Replay(S, txs) == IF txs = << >> THEN S ELSE Replay(Exec(S, Head(txs)), Tail(txs))

\* Citizen w1 and government user w2 exist, w1 has reported h1, w2 has set it
\* to Resolved, and both have verified it: h1 is Resolved with 2 verifications.
ResolvedTwice ==
    << <<"initializeUser", "w1", "w1", U32(0), "Citizen">>,
       <<"initializeUser", "w1", "w2", U32(7), "Government">>,
       <<"createIssue", "w1", "h1", "Pothole", 5>>,
       <<"updateIssueStatus", "w2", "h1", "Resolved">>,
       <<"recordVerification", "w1", "h1">>,
       <<"recordVerification", "w2", "h1">> >>

\* Government user w2 alone exists, at time 1: it has reported h1, set it to
\* Resolved and verified it twice itself.
ResolvedAlone ==
    << <<"tick">>,
       <<"initializeUser", "w2", "w2", U32(0), "Government">>,
       <<"createIssue", "w2", "h1", "Water", 255>>,
       <<"updateIssueStatus", "w2", "h1", "Resolved">>,
       <<"recordVerification", "w2", "h1">>,
       <<"recordVerification", "w2", "h1">> >>

\* The program continued from the ledger the transactions of ResolvedTwice or
\* of ResolvedAlone leave, for MaxOps further steps.
InitResolved ==
    \E txs \in {ResolvedTwice, ResolvedAlone} :
        /\ users = Replay(EmptyLedger, txs).users
        /\ issues = Replay(EmptyLedger, txs).issues
        /\ now = Replay(EmptyLedger, txs).now
        /\ nops = 0
    /\ cast = NoVotes

SpecResolved == InitResolved /\ [][Next]_vars

----------------------------------------------------------------------------
(* A ledger whose counters are about to saturate *)

AlmostMax == [hi |-> Limb - 1, lo |-> Limb - 2]

\* The accounts w1 and h1 of a ledger in which citizen w1 has reported and
\* verified, and h1 has been voted on and (a government user setting it back
\* to Resolved after each auto-close) verified, 2^32 - 2 or 2^32 - 1 times.
\* The issues and users that account for those counts are ones the model
\* does not follow; w2 has no record and h2 is unused.
SaturatedLedger(user_level, issue_level) ==
    [users |->
        [w \in {"w1"} |->
            [wallet_address |-> w,
             reputation |-> U32(0),
             role |-> "Citizen",
             total_issues |-> user_level,
             total_verifications |-> user_level,
             created_at |-> 0,
             bump |-> UserBump(w)]],
     issues |->
        [h \in {"h1"} |->
            [issue_hash |-> h,
             reporter |-> "w1",
             status |-> "Resolved",
             category |-> "Pothole",
             priority |-> 5,
             upvotes |-> issue_level,
             downvotes |-> issue_level,
             verifications |-> issue_level,
             created_at |-> 0,
             updated_at |-> 0,
             bump |-> IssueBump(h)]],
     now |-> 0]

InitSaturated ==
    \E user_level \in {AlmostMax, U32Max}, issue_level \in {AlmostMax, U32Max} :
        /\ users = SaturatedLedger(user_level, issue_level).users
        /\ issues = SaturatedLedger(user_level, issue_level).issues
        /\ now = SaturatedLedger(user_level, issue_level).now
        /\ nops = 0
    /\ cast = NoVotes

SpecSaturated == InitSaturated /\ [][Next]_vars

----------------------------------------------------------------------------
(* One issue from report to closure, with four users *)

\* The reporter a, the voters b and c, and the government user g.
Participants == {"a", "b", "c", "g"}

Roster ==
    << [wallet |-> "a", role |-> "Citizen", reputations |-> {U32(0)}],
       [wallet |-> "b", role |-> "Citizen", reputations |-> Reputations],
       [wallet |-> "c", role |-> "Citizen", reputations |-> Reputations],
       [wallet |-> "g", role |-> "Government", reputations |-> Reputations] >>

\* What the n-th committed transaction of the scenario is.
Script ==
    << "register", "register", "register", "register", "report",
       "vote", "vote", "resolve", "verify", "verify", "verify" >>

Stage == IF nops < Len(Script) THEN Script[nops + 1] ELSE "done"

\* The users get their records, in the order of the roster.
Register ==
    /\ Stage = "register"
    /\ \E p \in Participants, rep \in Roster[nops + 1].reputations :
          Transact(InitializeUser(Ledger, p, Roster[nops + 1].wallet, rep,
                                  Roster[nops + 1].role))
    /\ UNCHANGED cast

\* a reports h1.
Report ==
    /\ Stage = "report"
    /\ Transact(CreateIssue(Ledger, "a", "h1", "Pothole", 5))
    /\ UNCHANGED cast

\* A citizen other than the reporter votes h1 up.
Vote ==
    /\ Stage = "vote"
    /\ \E v \in {"b", "c"} :
          /\ Transact(RecordVote(Ledger, v, "h1", "a", "Upvote"))
          /\ cast' = IF RecordVote(Ledger, v, "h1", "a", "Upvote").err = "Ok"
                     THEN [cast EXCEPT !["h1"]["Upvote"] = @ + 1]
                     ELSE cast

\* g sets h1 to Resolved.
Resolve ==
    /\ Stage = "resolve"
    /\ Transact(UpdateIssueStatus(Ledger, "g", "h1", "Resolved"))
    /\ UNCHANGED cast

\* A user who has not verified yet verifies h1.
Verify ==
    /\ Stage = "verify"
    /\ \E v \in Participants :
          /\ v \in DOMAIN users
          /\ users[v].total_verifications = U32(0)
          /\ Transact(RecordVerification(Ledger, v, "h1"))
    /\ UNCHANGED cast

NextScenario == Register \/ Report \/ Vote \/ Resolve \/ Verify

SpecScenario == Init /\ [][NextScenario]_vars

----------------------------------------------------------------------------
(* Properties *)

\* C1: once a wallet address has a UserRecord, initializeUser with that
\* address, whatever the reputation, role and payer, fails with AlreadyExists
\* and leaves the record (and every other record) as it was.
C1_SecondInitializeUserFails ==
    \A w \in DOMAIN users :
        \A p \in Wallets, rep \in Reputations, role \in UserRole :
            LET o == InitializeUser(Ledger, p, w, rep, role)
            IN /\ o.err = "AlreadyExists"
               /\ o.users[w] = users[w]
               /\ o.users = users
               /\ o.issues = issues

\* A second initializeUser, with another role and reputation than the record
\* has, is attempted on an existing record and is refused.
C1_Witness ==
    \E w \in DOMAIN users :
        \E p \in Wallets, rep \in Reputations, role \in UserRole :
            /\ rep # users[w].reputation
            /\ role # users[w].role
            /\ InitializeUser(Ledger, p, w, rep, role).err = "AlreadyExists"

\* C2: once an issue hash has an IssueRecord, createIssue with that hash,
\* whatever the reporter, category and priority, fails (with AlreadyExists
\* when the caller has a UserRecord) and leaves every field of the record, and
\* every other record, as it was.
C2_SecondCreateIssueFails ==
    \A h \in DOMAIN issues :
        \A a \in Wallets, c \in Categories, p \in Priorities :
            LET o == CreateIssue(Ledger, a, h, c, p)
            IN /\ o.err # "Ok"
               /\ a \in DOMAIN users => o.err = "AlreadyExists"
               /\ o.issues[h] = issues[h]
               /\ o.issues = issues
               /\ o.users = users

\* A second createIssue by another user than the reporter, with another
\* category and priority, is attempted on an existing issue and is refused.
C2_Witness ==
    \E h \in DOMAIN issues :
        \E a \in DOMAIN users, c \in Categories, p \in Priorities :
            /\ a # issues[h].reporter
            /\ c # issues[h].category
            /\ p # issues[h].priority
            /\ CreateIssue(Ledger, a, h, c, p).err = "AlreadyExists"

\* C3: a createIssue that succeeds, by caller R for hash h, is one for an
\* unused hash; it creates the record of h with status Open, the three
\* counters 0, createdAt = updatedAt = the current time, reporter R and the
\* category and priority given; it adds exactly 1 to R's totalIssues and
\* changes nothing else of R's record, no other user's record and no other
\* issue.
C3_CreateIssueEffect ==
    \A a \in Wallets, h \in Hashes, c \in Categories, p \in Priorities :
        LET o == CreateIssue(Ledger, a, h, c, p)
        IN o.err = "Ok" =>
            /\ h \notin DOMAIN issues
            /\ a \in DOMAIN users
            /\ DOMAIN o.issues = DOMAIN issues \cup {h}
            /\ o.issues[h].issue_hash = h
            /\ o.issues[h].reporter = a
            /\ o.issues[h].status = "Open"
            /\ o.issues[h].category = c
            /\ o.issues[h].priority = p
            /\ o.issues[h].upvotes = U32(0)
            /\ o.issues[h].downvotes = U32(0)
            /\ o.issues[h].verifications = U32(0)
            /\ o.issues[h].created_at = now
            /\ o.issues[h].updated_at = now
            /\ \A k \in DOMAIN issues : o.issues[k] = issues[k]
            /\ DOMAIN o.users = DOMAIN users
            /\ U32Succ(users[a].total_issues, o.users[a].total_issues)
            /\ o.users[a] = [users[a] EXCEPT !.total_issues = o.users[a].total_issues]
            /\ \A w \in DOMAIN users \ {a} : o.users[w] = users[w]

\* An issue has been created at a time after the start, by a user who has
\* reported exactly this one issue, while another user exists.
C3_Witness ==
    \E h \in DOMAIN issues :
        /\ issues[h].created_at > 0
        /\ issues[h].updated_at = issues[h].created_at
        /\ issues[h].status = "Open"
        /\ users[issues[h].reporter].total_issues = U32(1)
        /\ \E w \in DOMAIN users : w # issues[h].reporter

\* C6: recordVerification by a user with a record, of either role, on an
\* issue whose status is Open, InProgress or Closed fails with InvalidStatus
\* and changes no record: the issue's verifications and status and the
\* verifier's totalVerifications stay as they were, whatever the verifications
\* count.
C6_VerificationNeedsResolved ==
    \A h \in DOMAIN issues, v \in DOMAIN users :
        issues[h].status \in {"Open", "InProgress", "Closed"} =>
            LET o == RecordVerification(Ledger, v, h)
            IN /\ o.err = "InvalidStatus"
               /\ o.issues[h].verifications = issues[h].verifications
               /\ o.issues[h].status = issues[h].status
               /\ o.users[v].total_verifications = users[v].total_verifications
               /\ o.issues = issues
               /\ o.users = users

\* An issue with 3 verifications that a government user has moved back to
\* Open, and a citizen whose verification of it is refused.
C6_Witness ==
    \E h \in DOMAIN issues, v \in DOMAIN users :
        /\ issues[h].status = "Open"
        /\ issues[h].verifications = U32(3)
        /\ users[v].role = "Citizen"
        /\ RecordVerification(Ledger, v, h).err = "InvalidStatus"

\* C7: recordVerification on a Resolved issue succeeds (the counters being
\* below their maximum), and a recordVerification that succeeds is one on a
\* Resolved issue, adds exactly 1 to the issue's verifications and exactly 1
\* to the verifier's totalVerifications, and leaves the status Closed if the
\* new verifications is >= 3 and Resolved otherwise; from verifications = 2
\* the result is verifications = 3 and status Closed.
C7_VerificationCountsAndCloses ==
    \A h \in DOMAIN issues, v \in DOMAIN users :
        LET o == RecordVerification(Ledger, v, h)
        IN /\ ( /\ issues[h].status = "Resolved"
                /\ issues[h].verifications # U32Max
                /\ users[v].total_verifications # U32Max ) => o.err = "Ok"
           /\ o.err = "Ok" =>
                /\ issues[h].status = "Resolved"
                /\ U32Succ(issues[h].verifications, o.issues[h].verifications)
                /\ U32Succ(users[v].total_verifications,
                           o.users[v].total_verifications)
                /\ o.issues[h].status =
                      IF U32Ge(o.issues[h].verifications, 3)
                      THEN "Closed" ELSE "Resolved"
                /\ issues[h].verifications = U32(2) =>
                      /\ o.issues[h].verifications = U32(3)
                      /\ o.issues[h].status = "Closed"

\* The third verification has been recorded and has closed the issue, while
\* another issue has had its first verification and is still Resolved.
C7_Witness ==
    \E h \in DOMAIN issues, k \in DOMAIN issues :
        /\ issues[h].verifications = U32(3)
        /\ issues[h].status = "Closed"
        /\ issues[k].verifications = U32(1)
        /\ issues[k].status = "Resolved"

\* C8 as claimed: in every reachable ledger an issue with verifications >= 3
\* is Closed, and every recordVerification on it is rejected with
\* InvalidStatus.
C8_AlwaysClosedFromThree ==
    \A h \in DOMAIN issues :
        U32Ge(issues[h].verifications, 3) =>
            /\ issues[h].status = "Closed"
            /\ \A v \in DOMAIN users :
                  RecordVerification(Ledger, v, h).err = "InvalidStatus"

\* Every instruction other than updateIssueStatus, with any arguments, has an
\* outcome for which P holds.
OutcomesButStatusUpdate(P(_)) ==
    /\ \A p \in Wallets, w \in Wallets, rep \in Reputations, role \in UserRole :
          P(InitializeUser(Ledger, p, w, rep, role))
    /\ \A a \in Wallets, h \in Hashes, c \in Categories, p \in Priorities :
          P(CreateIssue(Ledger, a, h, c, p))
    /\ \A v \in Wallets, h \in Hashes, r \in Wallets, t \in VoteType :
          P(RecordVote(Ledger, v, h, r, t))
    /\ \A v \in Wallets, h \in Hashes : P(RecordVerification(Ledger, v, h))
    /\ \A a \in Wallets, w \in Wallets, rep \in Reputations :
          P(UpdateReputation(Ledger, a, w, rep))

\* C8 as amended: the recordVerification that brings verifications to 3 or
\* more leaves the issue Closed; while an issue is Closed every
\* recordVerification on it is rejected, with InvalidStatus for a verifier
\* that has a record; and an issue that is Closed with verifications >= 3
\* stays so under every instruction except an updateIssueStatus on it by a
\* Government caller.
C8_ClosedUntilGovernmentReopens ==
    \A h \in DOMAIN issues :
        /\ \A v \in Wallets :
              LET o == RecordVerification(Ledger, v, h)
              IN /\ ( o.err = "Ok" /\ U32Ge(o.issues[h].verifications, 3) ) =>
                        o.issues[h].status = "Closed"
                 /\ issues[h].status = "Closed" =>
                        /\ o.err # "Ok"
                        /\ v \in DOMAIN users => o.err = "InvalidStatus"
        /\ ( issues[h].status = "Closed" /\ U32Ge(issues[h].verifications, 3) ) =>
              /\ OutcomesButStatusUpdate(LAMBDA o : o.issues[h].status = "Closed")
              /\ \A g \in Wallets, k \in Hashes, st \in IssueStatus :
                    LET o == UpdateIssueStatus(Ledger, g, k, st)
                    IN o.issues[h].status # "Closed" =>
                          /\ k = h
                          /\ g \in DOMAIN users
                          /\ users[g].role = "Government"

\* An issue that was closed by its third verification and reopened by a
\* government user has been verified a fourth time and is Closed again.
C8_Witness ==
    \E h \in DOMAIN issues :
        /\ issues[h].verifications = U32(4)
        /\ issues[h].status = "Closed"

\* C9: updateIssueStatus by a caller whose role is Citizen fails with
\* Unauthorized and changes no record; by a caller whose role is Government it
\* succeeds whatever the current and the new status are, sets the status to
\* newStatus and updatedAt to the current time, and changes nothing else: not
\* upvotes, downvotes or verifications, no other issue and no user.
C9_StatusUpdateGovernmentOnly ==
    \A h \in DOMAIN issues, g \in DOMAIN users, st \in IssueStatus :
        LET o == UpdateIssueStatus(Ledger, g, h, st)
        IN /\ users[g].role = "Citizen" =>
                /\ o.err = "Unauthorized"
                /\ o.issues = issues
                /\ o.users = users
           /\ users[g].role = "Government" =>
                /\ o.err = "Ok"
                /\ o.issues[h].status = st
                /\ o.issues[h].upvotes = issues[h].upvotes
                /\ o.issues[h].downvotes = issues[h].downvotes
                /\ o.issues[h].verifications = issues[h].verifications
                /\ o.issues[h] = [issues[h] EXCEPT !.status = st, !.updated_at = now]
                /\ \A k \in DOMAIN issues \ {h} : o.issues[k] = issues[k]
                /\ DOMAIN o.issues = DOMAIN issues
                /\ o.users = users

\* An issue with a vote and 3 verifications, closed by the third, that a
\* government user has moved back from Closed to Open, in a ledger where a
\* citizen's updateIssueStatus is refused.
C9_Witness ==
    \E h \in DOMAIN issues, g \in DOMAIN users, c \in DOMAIN users :
        /\ issues[h].status = "Open"
        /\ issues[h].verifications = U32(3)
        /\ issues[h].upvotes = U32(1)
        /\ users[g].role = "Government"
        /\ UpdateIssueStatus(Ledger, g, h, "Closed").err = "Ok"
        /\ users[c].role = "Citizen"
        /\ UpdateIssueStatus(Ledger, c, h, "Closed").err = "Unauthorized"

\* The outcome o failed and changed no record.
Refused(o) == o.err # "Ok" /\ o.users = users /\ o.issues = issues

\* The ledger with w's role replaced.
WithRole(S, w, role) == [S EXCEPT !.users[w].role = role]

\* createIssue, recordVote and recordVerification by a caller without a
\* UserRecord are refused.
C10_RecordNeeded ==
    \A a \in Wallets \ DOMAIN users :
        /\ \A h \in Hashes, c \in Categories, p \in Priorities :
              Refused(CreateIssue(Ledger, a, h, c, p))
        /\ \A h \in Hashes, r \in Wallets, t \in VoteType :
              Refused(RecordVote(Ledger, a, h, r, t))
        /\ \A h \in Hashes : Refused(RecordVerification(Ledger, a, h))

\* For a caller with a UserRecord the outcome of createIssue, recordVote and
\* recordVerification does not depend on the caller's role nor on who reported
\* the issue: with the caller's role replaced the outcome is the same (but for
\* that role); a vote has the same outcome whoever casts it and whichever user
\* is passed as reporter; a verification fails or succeeds by the issue's
\* status and the two counters alone, and leaves the same issue whoever makes
\* it.
C10_RoleAndOwnerIrrelevant ==
    /\ \A a \in DOMAIN users, role \in UserRole :
          /\ \A h \in Hashes, c \in Categories, p \in Priorities :
                LET o == CreateIssue(Ledger, a, h, c, p)
                    q == CreateIssue(WithRole(Ledger, a, role), a, h, c, p)
                IN /\ q.err = o.err
                   /\ q.issues = o.issues
                   /\ q.users = WithRole(o, a, role).users
          /\ \A h \in Hashes :
                LET o == RecordVerification(Ledger, a, h)
                    q == RecordVerification(WithRole(Ledger, a, role), a, h)
                IN /\ q.err = o.err
                   /\ q.issues = o.issues
                   /\ q.users = WithRole(o, a, role).users
    /\ \A h \in DOMAIN issues, v \in DOMAIN users :
          LET o == RecordVerification(Ledger, v, h)
          IN /\ o.err = "Ok" <=> /\ issues[h].status = "Resolved"
                                 /\ issues[h].verifications # U32Max
                                 /\ users[v].total_verifications # U32Max
             /\ \A w \in DOMAIN users :
                   LET q == RecordVerification(Ledger, w, h)
                   IN ( o.err = "Ok" /\ q.err = "Ok" ) => q.issues = o.issues
    /\ \A h \in Hashes, t \in VoteType :
          \A v \in DOMAIN users, r \in DOMAIN users,
             w \in DOMAIN users, k \in DOMAIN users :
                RecordVote(Ledger, v, h, r, t) = RecordVote(Ledger, w, h, k, t)

\* C10 as claimed: each of createIssue, recordVote, recordVerification and
\* updateReputation by a caller without a UserRecord fails and changes no
\* record, and for a caller with one the outcome depends neither on its role
\* nor on the owner of the target.
C10_CallerNeedsRecord ==
    /\ C10_RecordNeeded
    /\ \A a \in Wallets \ DOMAIN users, w \in Wallets, rep \in Reputations :
          Refused(UpdateReputation(Ledger, a, w, rep))
    /\ C10_RoleAndOwnerIrrelevant
    /\ \A w \in Wallets, rep \in Reputations :
          \A a \in DOMAIN users, b \in DOMAIN users :
             UpdateReputation(Ledger, a, w, rep) = UpdateReputation(Ledger, b, w, rep)

\* C10 as amended: createIssue, recordVote and recordVerification by a caller
\* without a UserRecord fail and change no record; updateReputation puts no
\* condition on its caller: whether or not the caller has a UserRecord, it
\* succeeds whenever the target has one, with the same outcome for every
\* caller; and for a caller with a UserRecord the outcome of the other three
\* depends neither on its role nor on the owner of the target.
C10_OnlyReputationNeedsNoRecord ==
    /\ C10_RecordNeeded
    /\ C10_RoleAndOwnerIrrelevant
    /\ \A w \in Wallets, rep \in Reputations :
          \A a \in Wallets, b \in Wallets :
             /\ UpdateReputation(Ledger, a, w, rep) = UpdateReputation(Ledger, b, w, rep)
             /\ w \in DOMAIN users => UpdateReputation(Ledger, a, w, rep).err = "Ok"

\* A wallet without a UserRecord whose vote and verification on a Resolved
\* issue are refused with NotFound, and whose updateReputation of the issue's
\* reporter succeeds.
C10_Witness ==
    \E a \in Wallets \ DOMAIN users, h \in DOMAIN issues, rep \in Reputations :
        /\ issues[h].status = "Resolved"
        /\ RecordVerification(Ledger, a, h).err = "NotFound"
        /\ RecordVote(Ledger, a, h, issues[h].reporter, "Upvote").err = "NotFound"
        /\ rep # users[issues[h].reporter].reputation
        /\ UpdateReputation(Ledger, a, issues[h].reporter, rep).err = "Ok"

\* C4: an operation that would increment a counter that is 2^32 - 1 fails
\* with Overflow and the counter is 2^32 - 1 afterwards, for each of the five
\* counters: upvotes and downvotes (recordVote), verifications and the
\* verifier's totalVerifications (recordVerification on a Resolved issue),
\* the reporter's totalIssues (createIssue of an unused hash).
C4_SaturatedCounterOverflows ==
    /\ \A h \in DOMAIN issues, v \in DOMAIN users :
          /\ \A r \in DOMAIN users :
                /\ issues[h].upvotes = U32Max =>
                      LET o == RecordVote(Ledger, v, h, r, "Upvote")
                      IN o.err = "Overflow" /\ o.issues[h].upvotes = U32Max
                /\ issues[h].downvotes = U32Max =>
                      LET o == RecordVote(Ledger, v, h, r, "Downvote")
                      IN o.err = "Overflow" /\ o.issues[h].downvotes = U32Max
          /\ issues[h].status = "Resolved" =>
                LET o == RecordVerification(Ledger, v, h)
                IN /\ issues[h].verifications = U32Max =>
                         /\ o.err = "Overflow"
                         /\ o.issues[h].verifications = U32Max
                   /\ users[v].total_verifications = U32Max =>
                         /\ o.err = "Overflow"
                         /\ o.users[v].total_verifications = U32Max
    /\ \A a \in DOMAIN users, h \in Hashes \ DOMAIN issues :
          \A c \in Categories, p \in Priorities :
             users[a].total_issues = U32Max =>
                LET o == CreateIssue(Ledger, a, h, c, p)
                IN o.err = "Overflow" /\ o.users[a].total_issues = U32Max

\* A vote has taken upvotes from 2^32 - 2 to 2^32 - 1, where the next Upvote
\* overflows while a Downvote is still counted, and the reporter's
\* totalIssues is at 2^32 - 1 while a hash is unused.
C4_Witness ==
    \E h \in DOMAIN issues, v \in DOMAIN users, k \in Hashes \ DOMAIN issues :
        /\ issues[h].upvotes = U32Max
        /\ issues[h].downvotes = AlmostMax
        /\ RecordVote(Ledger, v, h, v, "Upvote").err = "Overflow"
        /\ RecordVote(Ledger, v, h, v, "Downvote").err = "Ok"
        /\ users[v].total_issues = U32Max
        /\ CreateIssue(Ledger, v, k, "Water", 5).err = "Overflow"

\* C5: an instruction that fails, with whatever error, leaves every record as
\* it was.  A recordVerification on a Resolved issue below its maximum by a
\* verifier whose totalVerifications is 2^32 - 1 fails with Overflow and
\* leaves the issue's verifications, status and updatedAt as they were; a
\* createIssue of an unused hash by a reporter whose totalIssues is 2^32 - 1
\* fails with Overflow and the hash is still unused.
C5_FailureChangesNothing ==
    /\ OutcomesButStatusUpdate(
          LAMBDA o : o.err # "Ok" => o.users = users /\ o.issues = issues)
    /\ \A g \in Wallets, h \in Hashes, st \in IssueStatus :
          LET o == UpdateIssueStatus(Ledger, g, h, st)
          IN o.err # "Ok" => o.users = users /\ o.issues = issues
    /\ \A h \in DOMAIN issues, v \in DOMAIN users :
          ( /\ issues[h].status = "Resolved"
            /\ issues[h].verifications # U32Max
            /\ users[v].total_verifications = U32Max ) =>
             LET o == RecordVerification(Ledger, v, h)
             IN /\ o.err = "Overflow"
                /\ o.issues[h].verifications = issues[h].verifications
                /\ o.issues[h].status = issues[h].status
                /\ o.issues[h].updated_at = issues[h].updated_at
    /\ \A a \in DOMAIN users, h \in Hashes \ DOMAIN issues :
          \A c \in Categories, p \in Priorities :
             users[a].total_issues = U32Max =>
                LET o == CreateIssue(Ledger, a, h, c, p)
                IN o.err = "Overflow" /\ h \notin DOMAIN o.issues

\* Time has passed since the issue was last written; a verification by a
\* verifier whose totalVerifications is 2^32 - 1, of a Resolved issue with
\* 2^32 - 2 verifications, overflows after the handler has counted it on its
\* copy of the issue; the same user's createIssue of the unused hash
\* overflows; and AlreadyExists, NotFound and Unauthorized are results too.
C5_Witness ==
    \E h \in DOMAIN issues, v \in DOMAIN users, k \in Hashes \ DOMAIN issues :
        /\ now > issues[h].updated_at
        /\ issues[h].status = "Resolved"
        /\ issues[h].verifications = AlmostMax
        /\ users[v].total_verifications = U32Max
        /\ record_verification(issues[h], users[v], now).issue.verifications = U32Max
        /\ RecordVerification(Ledger, v, h).err = "Overflow"
        /\ users[v].total_issues = U32Max
        /\ CreateIssue(Ledger, v, k, "Water", 5).err = "Overflow"
        /\ CreateIssue(Ledger, v, h, "Water", 5).err = "AlreadyExists"
        /\ RecordVote(Ledger, v, k, v, "Upvote").err = "NotFound"
        /\ UpdateIssueStatus(Ledger, v, h, "Open").err = "Unauthorized"

----------------------------------------------------------------------------
(* Reputation, votes, roles and counters *)

\* The u32 values an updateReputation is tried with.
NewReputations == Reputations \cup {U32(1), U32(Limb), U32Max}

\* C11: updateReputation on a wallet that has a UserRecord succeeds whoever
\* the caller is (Citizen or Government, with or without a record, the
\* target or somebody else) and whatever u32 the new reputation is; it sets
\* the target's reputation to exactly that value and leaves its role,
\* totalIssues, totalVerifications, walletAddress, createdAt and
\* addressNonce, every other user record and every issue record as they
\* were.  On a wallet without a UserRecord it fails with NotFound and
\* changes nothing.
C11_UpdateReputationEffect ==
    \A a \in Wallets, w \in Wallets, rep \in NewReputations :
        LET o == UpdateReputation(Ledger, a, w, rep)
        IN IF w \in DOMAIN users
           THEN /\ o.err = "Ok"
                /\ DOMAIN o.users = DOMAIN users
                /\ o.users[w].reputation = rep
                /\ o.users[w].role = users[w].role
                /\ o.users[w].total_issues = users[w].total_issues
                /\ o.users[w].total_verifications = users[w].total_verifications
                /\ o.users[w].wallet_address = users[w].wallet_address
                /\ o.users[w].created_at = users[w].created_at
                /\ o.users[w].bump = users[w].bump
                /\ \A x \in DOMAIN users \ {w} : o.users[x] = users[x]
                /\ o.issues = issues
           ELSE /\ o.err = "NotFound"
                /\ o.users = users
                /\ o.issues = issues

\* A Government user and a Citizen both have records, the Citizen has
\* reported an issue and verified, and its reputation has been set to a
\* value other than its initial one.
C11_Witness ==
    \E c \in DOMAIN users, g \in DOMAIN users :
        /\ users[c].role = "Citizen"
        /\ users[g].role = "Government"
        /\ users[c].total_issues = U32(1)
        /\ U32Ge(users[c].total_verifications, 1)
        /\ users[c].reputation = U32(7)
        /\ UpdateReputation(Ledger, g, c, U32Max).err = "Ok"
        /\ UpdateReputation(Ledger, c, g, U32(0)).err = "Ok"

\* The counter a vote of type t is counted in, and the other one.
VoteField(t) == IF t = "Upvote" THEN "upvotes" ELSE "downvotes"
OtherVoteField(t) == IF t = "Upvote" THEN "downvotes" ELSE "upvotes"

\* C12: a successful recordVote of type Upvote makes the issue's upvotes
\* exactly 1 greater and leaves its downvotes as they were (and the other
\* way round for Downvote); of the issue it changes nothing else but
\* updatedAt, and it changes no other issue and no user record.  Nothing
\* guards against self-votes or repeated votes: in every state a user with a
\* record, the reporter included, can vote on every issue, whatever has been
\* voted before.  So upvotes and downvotes equal the numbers of committed
\* Upvote and Downvote transactions on the issue.
C12_VoteCounts ==
    /\ \A v \in Wallets, h \in Hashes, r \in Wallets, t \in VoteType :
          LET o == RecordVote(Ledger, v, h, r, t)
          IN o.err = "Ok" =>
                /\ h \in DOMAIN issues
                /\ DOMAIN o.issues = DOMAIN issues
                /\ U32Succ(issues[h][VoteField(t)], o.issues[h][VoteField(t)])
                /\ o.issues[h] = [issues[h] EXCEPT
                                     ![VoteField(t)] = o.issues[h][VoteField(t)],
                                     !.updated_at = now]
                /\ o.issues[h][OtherVoteField(t)] = issues[h][OtherVoteField(t)]
                /\ o.issues[h].status = issues[h].status
                /\ o.issues[h].verifications = issues[h].verifications
                /\ \A k \in DOMAIN issues \ {h} : o.issues[k] = issues[k]
                /\ o.users = users
    /\ \A h \in DOMAIN issues, v \in DOMAIN users, r \in DOMAIN users :
          \A t \in VoteType : RecordVote(Ledger, v, h, r, t).err = "Ok"
    /\ \A h \in DOMAIN issues :
          /\ issues[h].upvotes = U32(cast[h]["Upvote"])
          /\ issues[h].downvotes = U32(cast[h]["Downvote"])
    /\ \A h \in Hashes \ DOMAIN issues : cast[h] = NoVotes[h]

\* The only user there is has reported an issue and has voted it up and
\* down, both votes were counted, and it can vote again.
C12_Witness ==
    \E h \in DOMAIN issues :
        /\ DOMAIN users = {issues[h].reporter}
        /\ issues[h].upvotes = U32(1)
        /\ issues[h].downvotes = U32(1)
        /\ cast[h]["Upvote"] = 1
        /\ RecordVote(Ledger, issues[h].reporter, h, issues[h].reporter, "Upvote").err = "Ok"

\* C13: a user's role is the one initializeUser was called with and never
\* changes: across every step, of whichever of the six instructions and
\* whether it commits or fails, every UserRecord there is stays and keeps
\* its role, and a UserRecord that appears is the work of an initializeUser
\* for that wallet and has the role given to it.
C13_RoleNeverChanges ==
    [][ /\ \A w \in DOMAIN users :
              w \in DOMAIN users' /\ users'[w].role = users[w].role
        /\ \A w \in DOMAIN users' \ DOMAIN users :
              \E p \in Wallets, rep \in Reputations, role \in UserRole :
                  initializeUser(p, w, rep, role) /\ users'[w].role = role
      ]_vars

\* A Government user created at time 1 with reputation 0 has reported an
\* issue and verified it twice, its reputation has been set to 7 since, and
\* a Citizen has been given a record after it.
C13_Witness ==
    \E g \in DOMAIN users, c \in DOMAIN users :
        /\ users[g].role = "Government"
        /\ users[g].created_at = 1
        /\ users[g].total_issues = U32(1)
        /\ U32Ge(users[g].total_verifications, 2)
        /\ users[g].reputation = U32(7)
        /\ users[c].role = "Citizen"

\* y is x or x + 1.
SameOrNext(x, y) == y = x \/ U32Succ(x, y)

\* C14: the five counters only ever go up by one: across every step every
\* record there is stays, and its upvotes, downvotes and verifications (of
\* an issue) and totalIssues and totalVerifications (of a user) are what
\* they were or exactly 1 more; none decreases or starts again, up to
\* 2^32 - 1 included.
C14_CountersOnlyIncrement ==
    [][ /\ \A w \in DOMAIN users :
              /\ w \in DOMAIN users'
              /\ SameOrNext(users[w].total_issues, users'[w].total_issues)
              /\ SameOrNext(users[w].total_verifications,
                            users'[w].total_verifications)
        /\ \A h \in DOMAIN issues :
              /\ h \in DOMAIN issues'
              /\ SameOrNext(issues[h].upvotes, issues'[h].upvotes)
              /\ SameOrNext(issues[h].downvotes, issues'[h].downvotes)
              /\ SameOrNext(issues[h].verifications, issues'[h].verifications)
      ]_vars

\* An issue's upvotes and verifications have gone from 2^32 - 2 to 2^32 - 1,
\* its reporter's totalIssues has done the same with a second issue, and the
\* verifier's totalVerifications has gone from 0 to 1.
C14_Witness ==
    \E h \in DOMAIN issues, k \in DOMAIN issues, v \in DOMAIN users :
        /\ h # k
        /\ issues[h].upvotes = U32Max
        /\ cast[h]["Upvote"] = 1
        /\ issues[h].verifications = U32Max
        /\ issues[k].upvotes = U32(0)
        /\ users[issues[k].reporter].total_issues = U32Max
        /\ users[v].total_verifications = U32(1)

\* C15: citizen a, initialised with reputation 0, reports h1 (Pothole,
\* priority 5): h1 is Open with 0 upvotes.  Two citizens vote it up: upvotes
\* = 2.  Government user g sets it to Resolved: the status is Resolved.
\* Three different users verify it, and each of the three calls succeeds,
\* whoever of the four the verifiers are: the status is still Resolved
\* after the first and the second, and after the third verifications = 3
\* and the status is Closed.
C15_ReportToClosure ==
    /\ Stage = "report" =>
          /\ users["a"].reputation = U32(0) /\ users["a"].role = "Citizen"
          /\ CreateIssue(Ledger, "a", "h1", "Pothole", 5).err = "Ok"
    /\ nops = 5 =>
          /\ issues["h1"].status = "Open"
          /\ issues["h1"].upvotes = U32(0)
          /\ issues["h1"].category = "Pothole" /\ issues["h1"].priority = 5
    /\ Stage = "vote" =>
          \A v \in {"b", "c"} :
             /\ users[v].role = "Citizen"
             /\ RecordVote(Ledger, v, "h1", "a", "Upvote").err = "Ok"
    /\ nops = 7 => issues["h1"].upvotes = U32(2) /\ issues["h1"].status = "Open"
    /\ Stage = "resolve" =>
          /\ users["g"].role = "Government"
          /\ UpdateIssueStatus(Ledger, "g", "h1", "Resolved").err = "Ok"
    /\ nops = 8 =>
          issues["h1"].status = "Resolved" /\ issues["h1"].verifications = U32(0)
    /\ Stage = "verify" =>
          \A v \in Participants :
             users[v].total_verifications = U32(0) =>
                RecordVerification(Ledger, v, "h1").err = "Ok"
    /\ nops = 9 =>
          issues["h1"].status = "Resolved" /\ issues["h1"].verifications = U32(1)
    /\ nops = 10 =>
          issues["h1"].status = "Resolved" /\ issues["h1"].verifications = U32(2)
    /\ nops = 11 =>
          /\ issues["h1"].status = "Closed"
          /\ issues["h1"].verifications = U32(3)
          /\ issues["h1"].upvotes = U32(2)
          /\ Cardinality({v \in Participants :
                            users[v].total_verifications = U32(1)}) = 3
          /\ Cardinality({v \in Participants :
                            users[v].total_verifications = U32(0)}) = 1

\* The scenario has run to its end, with the reporter and the government
\* user among the three verifiers.
C15_Witness ==
    /\ Stage = "done"
    /\ issues["h1"].status = "Closed"
    /\ issues["h1"].verifications = U32(3)
    /\ users["a"].total_verifications = U32(1)
    /\ users["g"].total_verifications = U32(1)
    /\ users["b"].total_verifications = U32(0)

\* C16: an issue's verifications change only in a committed
\* recordVerification on that issue, taken from a state where its status is
\* Resolved: a createIssue of another hash, a recordVote, an
\* updateIssueStatus, the two user instructions and the passing of time
\* leave them as they are.
C16_VerificationsChangeOnlyByVerification ==
    [][ \A h \in DOMAIN issues :
           /\ h \in DOMAIN issues'
           /\ issues'[h].verifications # issues[h].verifications =>
                 /\ issues[h].status = "Resolved"
                 /\ \E v \in DOMAIN users :
                       /\ RecordVerification(Ledger, v, h).err = "Ok"
                       /\ recordVerification(v, h)
      ]_vars

\* An issue has been verified a third time, set back to Open by a
\* Government user and voted up, while a second issue has been reported:
\* its verifications are the 3 the verification left.
C16_Witness ==
    \E h \in DOMAIN issues, k \in DOMAIN issues :
        /\ h # k
        /\ issues[h].verifications = U32(CloseThreshold)
        /\ issues[h].status = "Open"
        /\ issues[h].upvotes = U32(1)
        /\ issues[k].verifications = U32(0)

\* The fields of an issue that are written when it is created.
CreationFields ==
    {"issue_hash", "reporter", "category", "priority", "created_at", "bump"}

\* C17: createdAt, issueHash, reporter, category, priority and addressNonce
\* of an IssueRecord never change after its creation: no instruction, with
\* whatever arguments and whether it commits or fails, has an outcome in
\* which an existing issue is gone or has another value in one of them.
\* Every recordVote, recordVerification and updateIssueStatus that commits
\* sets the issue's updatedAt to the time of the transaction, and so does an
\* updateIssueStatus by a Government user to the status the issue already
\* has.
C17_CreationFieldsFixedUpdatedAtStamped ==
    LET Kept(o) == \A h \in DOMAIN issues :
                       /\ h \in DOMAIN o.issues
                       /\ \A f \in CreationFields : o.issues[h][f] = issues[h][f]
        Stamped(o, h) == o.err = "Ok" => o.issues[h].updated_at = now
    IN /\ OutcomesButStatusUpdate(Kept)
       /\ \A g \in Wallets, h \in Hashes, st \in IssueStatus :
             /\ Kept(UpdateIssueStatus(Ledger, g, h, st))
             /\ Stamped(UpdateIssueStatus(Ledger, g, h, st), h)
       /\ \A v \in Wallets, h \in Hashes, r \in Wallets, t \in VoteType :
             Stamped(RecordVote(Ledger, v, h, r, t), h)
       /\ \A v \in Wallets, h \in Hashes :
             Stamped(RecordVerification(Ledger, v, h), h)
       /\ \A g \in DOMAIN users, h \in DOMAIN issues :
             users[g].role = "Government" =>
                LET o == UpdateIssueStatus(Ledger, g, h, issues[h].status)
                IN /\ o.err = "Ok"
                   /\ o.issues[h] = [issues[h] EXCEPT !.updated_at = now]

\* An issue created at time 0 was voted on at time 1, it is time 2 now, and
\* a Government user's updateIssueStatus to the status the issue has changes
\* its updatedAt from 1 to 2.
C17_Witness ==
    \E h \in DOMAIN issues, g \in DOMAIN users :
        /\ issues[h].created_at = 0
        /\ issues[h].upvotes = U32(1)
        /\ issues[h].updated_at = 1
        /\ now = 2
        /\ users[g].role = "Government"
        /\ UpdateIssueStatus(Ledger, g, h, issues[h].status).issues[h].updated_at = 2

----------------------------------------------------------------------------
(* Sums over the ledger *)

\* The number a u32 below 2^31 stands for.
U32Val(x) == x.hi * Limb + x.lo

\* The sum of a u32 field over the accounts of a store.
RECURSIVE Total(_, _, _)
Total(store, keys, field) ==
    IF keys = {} THEN 0
    ELSE LET k == CHOOSE x \in keys : TRUE
         IN U32Val(store[k][field]) + Total(store, keys \ {k}, field)

\* C18: in every reachable state each user's totalIssues is the number of
\* IssueRecords whose reporter is that user's wallet, and every issue's
\* reporter has a UserRecord: an issue and the increment of its reporter's
\* totalIssues are committed together or not at all.
C18_TotalIssuesCountsReported ==
    /\ \A w \in DOMAIN users :
          U32Val(users[w].total_issues) =
             Cardinality({h \in DOMAIN issues : issues[h].reporter = w})
    /\ \A h \in DOMAIN issues : issues[h].reporter \in DOMAIN users

\* One user has reported two issues, another one has a record and has
\* reported none.
C18_Witness ==
    \E w \in DOMAIN users, x \in DOMAIN users :
        /\ users[w].total_issues = U32(2)
        /\ Cardinality({h \in DOMAIN issues : issues[h].reporter = w}) = 2
        /\ users[x].total_issues = U32(0)

\* C19: in every reachable state the sum of verifications over all issues
\* equals the sum of totalVerifications over all users: a verification is
\* counted on the issue and on the verifier in the same transaction, or on
\* neither.
C19_VerificationSumsAgree ==
    Total(issues, DOMAIN issues, "verifications") =
        Total(users, DOMAIN users, "total_verifications")

\* Two issues have been verified, by two users, one of whom has verified
\* both: the sums are 4, made of 3 and 1 on the issues and on the users.
C19_Witness ==
    \E h \in DOMAIN issues, k \in DOMAIN issues :
       \E v \in DOMAIN users, w \in DOMAIN users :
        /\ issues[h].verifications = U32(3)
        /\ issues[k].verifications = U32(1)
        /\ users[v].total_verifications = U32(1)
        /\ users[w].total_verifications = U32(3)
        /\ Total(issues, DOMAIN issues, "verifications") = 4

----------------------------------------------------------------------------
(* What citizens alone can do *)

\* An issue as create_issue leaves it, as far as status and verifications go.
Untouched(issue_account) ==
    issue_account.status = "Open" /\ issue_account.verifications = U32(0)

\* In a ledger S without a Government user every issue is Open with no
\* verification, and a recordVerification on it by a user with a record is
\* rejected with InvalidStatus.
CitizensLeaveOpen(S) ==
    (\A w \in DOMAIN S.users : S.users[w].role # "Government") =>
        \A h \in DOMAIN S.issues :
            /\ Untouched(S.issues[h])
            /\ \A v \in DOMAIN S.users :
                  RecordVerification(S, v, h).err = "InvalidStatus"

\* C20: citizens alone cannot move an issue out of Open.  An issue is
\* created Open with 0 verifications, and the only step that takes it from
\* there to another status or to verifications above 0 is a committed
\* updateIssueStatus on it by a caller whose role is Government; so an
\* issue is not Open, or has verifications, only after such a step.  While
\* no Government UserRecord exists, before and after every step, every
\* issue is Open with 0 verifications and every recordVerification on an
\* issue by a user with a record fails with InvalidStatus.
C20_OnlyGovernmentLeavesOpen ==
    [][ /\ \A h \in DOMAIN issues' \ DOMAIN issues : Untouched(issues'[h])
        /\ \A h \in DOMAIN issues :
              ( Untouched(issues[h]) /\ ~Untouched(issues'[h]) ) =>
                 \E g \in DOMAIN users, st \in IssueStatus :
                    /\ users[g].role = "Government"
                    /\ UpdateIssueStatus(Ledger, g, h, st).err = "Ok"
                    /\ updateIssueStatus(g, h, st)
        /\ CitizensLeaveOpen(Ledger)
        /\ CitizensLeaveOpen(Ledger')
      ]_vars

\* A Government user has set an issue to Resolved and a verification of it
\* has been counted: the issue has left Open with 0 verifications.
C20_Witness ==
    \E h \in DOMAIN issues, g \in DOMAIN users :
        /\ users[g].role = "Government"
        /\ issues[h].status = "Resolved"
        /\ issues[h].verifications = U32(1)
        /\ users[g].total_verifications = U32(1)
        /\ now = issues[h].updated_at

====
